---- MODULE Spec2Model ----
(***************************************************************************)
(* Acquisition-to-storage pipeline of caen_scope_aramaki_lab.              *)
(*                                                                         *)
(* main.py: DataAcquisition.acquisition_thread (producer),                 *)
(* DataAcquisition.save_thread (consumer), listen_for_key / main (console  *)
(* listener and joins); bin_check.py: ReadRawFile.read_raw_data (reader).  *)
(*                                                                         *)
(* Files are sequences of bytes (0..255).  struct.pack with native order   *)
(* on the little-endian acquisition host is little-endian, as is the       *)
(* reader's "<" prefix.  A calibrated sample raw*adc_scale + adc_offset    *)
(* with adc_scale = 2/(2^b - 1) and adc_offset = -1 is carried as its      *)
(* numerator over the fixed denominator 2^b - 1; its 32-bit pattern is     *)
(* sign bit in the top byte and the magnitude in the three low bytes.      *)
(***************************************************************************)
EXTENDS Integers, Sequences, FiniteSets, TLC

\* ------------------------------------------------------------- bounds ----
MaxAcq == 2          \* loop iterations of acquisition_thread that are followed
NumCh == 2           \* int(dig.par.NUMCH.value)
RecLen == 2          \* samples per channel waveform buffer

\* ---------------------------------------------------------- constants ----
AdcNBits == 16       \* int(dig.par.ADC_NBIT.value)
TimeResolution == 8  \* struct.pack("Q", 8)
FlushEvery == 10     \* trigger_num % 10 == 0

Channels == 0 .. (NumCh - 1)
MaxRaw == 2 ^ AdcNBits - 1

\* queue item None, also the value of acquisition_data before the first get
None == [none |-> TRUE]

VARIABLES
    stop_event,         \* threading.Event shared by the three threads
    acquisition_queue,  \* queue.Queue: FIFO of frames and the sentinel
    data,               \* self.data: the buffer read_data fills
    acq_pc,             \* position of acquisition_thread
    acq_count,          \* acq_count of acquisition_thread
    cmds,               \* commands issued to the device, with their outcome
    save_pc,            \* position of save_thread
    file_handles,       \* keys of file_handles (channels opened)
    closed,             \* channels whose handle has been closed
    files,              \* raw_CH{i}.bin: logical content, a byte sequence
    unflushed,          \* bytes written to handle i since its last flush
    acquisition_data,   \* the item save_thread is serializing
    i,                  \* channel index of save_thread's loops
    main_pc,            \* position of main / listen_for_key
    \* history, read by the properties only
    produced,           \* frames put on the queue, in order
    sentinels,          \* number of put(None)
    dequeued,           \* number of frames save_thread has dequeued
    save_exit,          \* why save_thread left its loop
    opened_size,        \* length of each file when the run started
    stop_by,            \* who set the stop flag first
    stop_seen,          \* Len(produced) when the flag was first set
    stop_in_frame,      \* flag was set while a frame was being serialized
    stop_early,         \* flag was set before the producer's first loop test
    stop_triggers,      \* triggers sent when the flag was first set
    stop_dequeued,      \* frames dequeued when the flag was first set
    \* which program runs the two threads, and the bounded variants' run()
    variant,            \* "main" (main.py), "test" (multithread_test.py), "read" (read.py)
    n_acquisitions,     \* self.n_acquisitions of the bounded variants
    run_result,         \* what run() of a bounded variant returned
    \* bin_check.py: one ReadRawFile and its read_raw_data generator
    rd_input,           \* content of input_raw_file
    rd_pc,              \* position of the generator
    rd_pos,             \* file offset of myfile
    rd_events,          \* events yielded by the current invocation
    rd_prev,            \* events yielded by the invocation before it
    rd_runs,            \* number of invocations started
    rd_raised,          \* an exception left the generator
    rd_frames,          \* history: the frames rd_input was written from
    rd_chan,            \* history: and the channel
    \* DataAcquisition.__init__ / adc_to_mv on their own
    cal_b,              \* adc_n_bits
    cal_scale,          \* self.adc_scale, a rational
    cal_offset,         \* self.adc_offset, a rational
    cal_raw,            \* the raw sample being converted
    cal_out,            \* adc_to_mv(cal_raw), a rational
    \* config.py: one ConfigReader and its INI file
    cfg_exists,         \* self.file_path.exists()
    cfg_file,           \* the lines of the INI file
    cfg_sections,       \* self.config.sections()
    cfg_config,         \* self.config: the (section, option, value) it holds
    cfg_last,           \* the last call on the ConfigReader and its outcome
    cfg_calls           \* number of calls made

rd_vars == << rd_input, rd_pc, rd_pos, rd_events, rd_prev, rd_runs, rd_raised,
              rd_frames, rd_chan >>
cal_vars == << cal_b, cal_scale, cal_offset, cal_raw, cal_out >>
cfg_vars == << cfg_exists, cfg_file, cfg_sections, cfg_config, cfg_last,
               cfg_calls >>

\* what the two worker threads and the console listener never touch
env_vars == << variant, n_acquisitions, run_result, rd_vars, cal_vars,
              cfg_vars >>

vars == << stop_event, acquisition_queue, data, acq_pc, acq_count, cmds,
           save_pc, file_handles, closed, files, unflushed, acquisition_data,
           i, main_pc, produced, sentinels, dequeued, save_exit, opened_size,
           stop_by, stop_seen, stop_in_frame, stop_early, stop_triggers,
           stop_dequeued, env_vars >>

acq_vars == << data, acq_pc, acq_count, cmds, produced, sentinels >>
save_vars == << save_pc, file_handles, closed, files, unflushed,
                acquisition_data, i, dequeued, save_exit >>

\* ------------------------------------------------------ byte encoding ----
RECURSIVE PackLE(_, _)
\* struct.pack of an unsigned integer v into w little-endian bytes
PackLE(v, w) == IF w = 0 THEN << >>
                ELSE << v % 256 >> \o PackLE(v \div 256, w - 1)

RECURSIVE Horner(_)
Horner(b) == IF b = << >> THEN 0 ELSE Head(b) + 256 * Horner(Tail(b))

\* struct.unpack of little-endian bytes into an unsigned integer; a value of
\* 2^24 or more is beyond the range of the model and is decoded as -1
UnpackLE(b) ==
    IF \E n \in 4 .. Len(b) : b[n] # 0 THEN -1
    ELSE Horner(SubSeq(b, 1, IF Len(b) < 3 THEN Len(b) ELSE 3))

PackI(v) == PackLE(v, 4)
PackQ(v) == PackLE(v, 8)

\* the four bytes of one float32 sample (ndarray.tofile)
PackF(v) == PackLE(IF v < 0 THEN -v ELSE v, 3) \o << IF v < 0 THEN 128 ELSE 0 >>

\* struct.unpack("<f", ...)
UnpackF(b) == LET mag == UnpackLE(SubSeq(b, 1, 3))
              IN  IF b[4] >= 128 THEN -mag ELSE mag

RECURSIVE Concat(_)
Concat(ss) == IF ss = << >> THEN << >> ELSE Head(ss) \o Concat(Tail(ss))

IsPrefix(s, t) == Len(s) <= Len(t) /\ SubSeq(t, 1, Len(s)) = s

\* -------------------------------------------------------- calibration ----
adc_scale == 2
adc_offset == -MaxRaw

\* multithread_test.py: (adc * adc_range / (2**b - 1)) - adc_range / 2 on a
\* uint16 array, adc_range = 2: the product wraps modulo 2^16; numerator over
\* 2^b - 1
adc_to_mv_test(adc) == ((adc * 2) % (2 ^ 16)) - MaxRaw

\* read.py: adc_scale = 2 / (adc_n_bits - 1), adc_offset = 0; numerator over
\* adc_n_bits - 1
adc_to_mv_read(adc_array) == adc_array * 2 + 0

\* main.py: adc_array.astype(np.float32) * self.adc_scale + self.adc_offset;
\* numerator over 2^b - 1.  The bounded variants use their own conversion.
adc_to_mv(raw) ==
    CASE variant = "main" -> raw * adc_scale + adc_offset
      [] variant = "test" -> adc_to_mv_test(raw)
      [] variant = "read" -> adc_to_mv_read(raw)

\* ---------------------------------------------- rationals [num, den] ----
Rat(n, d) == [num |-> n, den |-> d]
RMul(x, y) == Rat(x.num * y.num, x.den * y.den)
RAdd(x, y) == IF x.den = y.den THEN Rat(x.num + y.num, x.den)
              ELSE Rat(x.num * y.den + y.num * x.den, x.den * y.den)
REq(x, y) == IF x.den = y.den THEN x.num = y.num
             ELSE x.num * y.den = y.num * x.den
RLess(x, y) == IF x.den = y.den THEN x.num < y.num
               ELSE x.num * y.den < y.num * x.den

\* mutant: the divisor of read.py, adc_n_bits - 1
AdcScale_nbits(b) == Rat(2, b - 1)

\* self.adc_scale = 2.0 / (2**self.adc_n_bits - 1)
AdcScale(b) == Rat(2, 2 ^ b - 1)

\* self.adc_offset = -1.0
AdcOffset(b) == Rat(-1, 1)

\* adc_array.astype(np.float32) * self.adc_scale + self.adc_offset, exact
AdcToMv(raw, scale, offset) == RAdd(RMul(Rat(raw, 1), scale), offset)

\* mutant: the whole buffer is converted, valid_count is ignored
Slice_all(waveform, size) == waveform

\* waveform[:size]
Slice(waveform, size) ==
    SubSeq(waveform, 1, IF size < Len(waveform) THEN size ELSE Len(waveform))

\* ------------------------------------------------------- Frame Source ----
\* the readouts the model lets the device deliver: a timestamp and how the
\* reported valid counts relate to the buffer length
ReadoutKinds ==
    { [t |-> 258, k |-> "full"], [t |-> 3, k |-> "short"], [t |-> 259, k |-> "over"] }

Waveforms(t) ==
    [c \in Channels |->
        [j \in 1 .. RecLen |-> IF (c + j) % 2 = 0 THEN MaxRaw ELSE (t + 300 * j + c)]]

Sizes(k) ==
    [c \in Channels |->
        CASE k = "full"  -> RecLen
          [] k = "short" -> c % (RecLen + 1)
          [] k = "over"  -> RecLen + 1]

\* what one read_data call can leave in self.data for trigger number n
Readouts(n) ==
    { [trigger_num |-> n, timestamp |-> r.t,
       waveforms |-> Waveforms(r.t), waveform_sizes |-> Sizes(r.k)] :
         r \in ReadoutKinds }

ValidFrame(fr) ==
    \A c \in Channels : fr.waveform_sizes[c] <= Len(fr.waveforms[c])

\* ------------------------------------------------------ record format ----
\* mutant: the sample count is packed as "Q" (8 bytes) instead of "I"
Fields_sizeQ(fr, c) ==
    LET size == fr.waveform_sizes[c]
        waveform_mv == [j \in 1 .. Len(Slice(fr.waveforms[c], size)) |->
                           adc_to_mv(fr.waveforms[c][j])]
    IN  << PackI(fr.trigger_num),
           PackQ(fr.timestamp),
           PackQ(size),
           PackQ(TimeResolution),
           Concat([j \in 1 .. Len(waveform_mv) |-> PackF(waveform_mv[j])]) >>

\* mutant: the header carries the buffer length, not valid_count
Fields_buflen(fr, c) ==
    LET size == fr.waveform_sizes[c]
        waveform_mv == [j \in 1 .. Len(Slice(fr.waveforms[c], size)) |->
                           adc_to_mv(fr.waveforms[c][j])]
    IN  << PackI(fr.trigger_num),
           PackQ(fr.timestamp),
           PackI(Len(fr.waveforms[c])),
           PackQ(TimeResolution),
           Concat([j \in 1 .. Len(waveform_mv) |-> PackF(waveform_mv[j])]) >>

\* the five writes of save_thread for channel c of one frame
Fields(fr, c) ==
    LET size == fr.waveform_sizes[c]
        waveform_mv == [j \in 1 .. Len(Slice(fr.waveforms[c], size)) |->
                           adc_to_mv(fr.waveforms[c][j])]
    IN  << PackI(fr.trigger_num),
           PackQ(fr.timestamp),
           PackI(size),
           PackQ(TimeResolution),
           Concat([j \in 1 .. Len(waveform_mv) |-> PackF(waveform_mv[j])]) >>

RecordBytes(fr, c) == Concat(Fields(fr, c))

\* ------------------------------------------------------------- reader ----
RECURSIVE ReadFrom(_)
\* read_raw_data from a file position: the events yielded until struct.error,
\* and the bytes left over when the generator stops
ReadFrom(b) ==
    IF Len(b) < 24 THEN [events |-> << >>, rest |-> b]
    ELSE
      LET event_number == UnpackLE(SubSeq(b, 1, 4))
          timestamp == UnpackLE(SubSeq(b, 5, 12))
          nSamples == UnpackLE(SubSeq(b, 13, 16))
          time_resolution == UnpackLE(SubSeq(b, 17, 24))
      IN  IF nSamples < 0 \/ Len(b) < 24 + 4 * nSamples
            THEN [events |-> << >>, rest |-> b]
          ELSE
            LET wf == [j \in 1 .. nSamples |->
                          UnpackF(SubSeq(b, 24 + 4 * j - 3, 24 + 4 * j))]
                more == ReadFrom(SubSeq(b, 24 + 4 * nSamples + 1, Len(b)))
            IN  [events |-> << [EventNumber |-> event_number,
                                Timestamp |-> timestamp,
                                NSamples |-> nSamples,
                                TimeResolution |-> time_resolution,
                                Waveform |-> wf] >> \o more.events,
                 rest |-> more.rest]

read_raw_data(b) == ReadFrom(b).events

\* -------------------------------------------------------------- state ----
\* a channel file may hold the records of an earlier run (append mode)
PriorContents ==
    { << >>, PackI(7) \o PackQ(5) \o PackI(0) \o PackQ(TimeResolution) }

\* the two threads before their first step, the channel files holding p
PipeStart(p) ==
    /\ stop_event = FALSE
    /\ acquisition_queue = << >>
    /\ data = None
    /\ acq_pc = "arm"
    /\ acq_count = 0
    /\ cmds = << >>
    /\ save_pc = "open"
    /\ file_handles = {}
    /\ closed = {}
    /\ files = [c \in Channels |-> p]
    /\ unflushed = [c \in Channels |-> 0]
    /\ acquisition_data = None
    /\ i = 0
    /\ produced = << >>
    /\ sentinels = 0
    /\ dequeued = 0
    /\ save_exit = "none"
    /\ opened_size = [c \in Channels |-> Len(p)]
    /\ stop_by = "none"
    /\ stop_seen = -1
    /\ stop_in_frame = FALSE
    /\ stop_early = FALSE
    /\ stop_triggers = -1
    /\ stop_dequeued = -1
    /\ run_result = "none"

\* no ReadRawFile in use
ReaderOff ==
    /\ rd_input = << >>
    /\ rd_pc = "off"
    /\ rd_pos = 0
    /\ rd_events = << >>
    /\ rd_prev = << >>
    /\ rd_runs = 0
    /\ rd_raised = FALSE
    /\ rd_frames = << >>
    /\ rd_chan = 0

\* no ConfigReader in use
ConfigOff ==
    /\ cfg_exists = FALSE
    /\ cfg_file = << >>
    /\ cfg_sections = {}
    /\ cfg_config = {}
    /\ cfg_last = [op |-> "none"]
    /\ cfg_calls = 0

\* DataAcquisition.__init__ for ADC depth b: scale and offset, nothing converted
Construct(b) ==
    /\ cal_b = b
    /\ cal_scale = AdcScale(b)
    /\ cal_offset = AdcOffset(b)
    /\ cal_raw = 0
    /\ cal_out = AdcToMv(0, AdcScale(b), AdcOffset(b))

\* main.py after DataAcquisition.__init__ and run(): both threads started,
\* the main thread in listen_for_key
Init ==
    /\ \E p \in PriorContents : PipeStart(p)
    /\ main_pc = "listen"
    /\ variant = "main"
    /\ n_acquisitions = 0
    /\ ReaderOff
    /\ Construct(AdcNBits)
    /\ ConfigOff

\* number of SendSwTrigger calls made so far
Triggers == Cardinality({k \in 1 .. Len(cmds) : cmds[k].cmd = "Trigger"})

\* stop_event.set() by thread who
SetStop(who) ==
    /\ stop_event' = TRUE
    /\ stop_by' = IF stop_event THEN stop_by ELSE who
    /\ stop_seen' = IF stop_event THEN stop_seen ELSE Len(produced)
    /\ stop_in_frame' = (stop_in_frame \/ (~stop_event /\ save_pc = "write"))
    /\ stop_early' = IF stop_event THEN stop_early
                     ELSE \/ acq_pc \in {"arm", "start"}
                          \/ (acq_pc = "check" /\ acq_count = 0)
    /\ stop_triggers' = IF stop_event THEN stop_triggers ELSE Triggers
    /\ stop_dequeued' = IF stop_event THEN stop_dequeued ELSE dequeued

NoStop == UNCHANGED << stop_event, stop_by, stop_seen, stop_in_frame, stop_early,
                       stop_triggers, stop_dequeued >>

\* ------------------------------------------------- acquisition_thread ----
\* mutant: the error is logged and the loop goes on (no flag, no exit)
AcqExcept_swallow ==
    /\ NoStop
    /\ acq_pc' = "check"

\* except Exception: print(...); self.stop_event.set(); then the finally
AcqExcept ==
    /\ SetStop("acq")
    /\ acq_pc' = "disarm"

\* one call of the device; it returns (go to 'to') or raises
FrameSourceCall(from, cmd, to) ==
    /\ acq_pc = from
    /\ \E ok \in BOOLEAN :
         /\ cmds' = Append(cmds, [cmd |-> cmd, ok |-> ok])
         /\ IF ok THEN acq_pc' = to /\ NoStop ELSE AcqExcept
    /\ UNCHANGED << acquisition_queue, data, acq_count, produced, sentinels >>
    /\ UNCHANGED << save_vars, main_pc, opened_size, env_vars >>

\* mutant: SwStartAcquisition is left out, the loop follows the arm command
AcqArm_nostart == FrameSourceCall("arm", "Arm", "check")

\* self.dig.cmd.ArmAcquisition()
AcqArm == FrameSourceCall("arm", "Arm", "start")

\* self.dig.cmd.SwStartAcquisition()
AcqStart == FrameSourceCall("start", "Start", "check")

\* while not self.stop_event.is_set(); the model follows at most MaxAcq
\* iterations: after them the thread is not scheduled until the flag is set
AcqCheck ==
    /\ acq_pc = "check"
    /\ stop_event \/ acq_count < MaxAcq
    /\ acq_pc' = IF stop_event THEN "put_none" ELSE "trigger"
    /\ NoStop
    /\ UNCHANGED << acquisition_queue, data, acq_count, cmds, produced, sentinels >>
    /\ UNCHANGED << save_vars, main_pc, opened_size, env_vars >>

\* self.dig.cmd.SendSwTrigger()
AcqTrigger == FrameSourceCall("trigger", "Trigger", "read")

\* the frame it, when it shares the waveform and size arrays of buffer r
Aliased(it, r) ==
    IF it = None THEN it
    ELSE [it EXCEPT !.waveforms = r.waveforms,
                    !.waveform_sizes = r.waveform_sizes]

\* mutant: no deepcopy, every frame refers to the arrays of self.data, which
\* the next read_data overwrites
AcqRead_nocopy ==
    /\ acq_pc = "read"
    /\ \/ \E r \in Readouts(acq_count) :
            /\ cmds' = Append(cmds, [cmd |-> "Read", ok |-> TRUE])
            /\ data' = r
            /\ acquisition_queue' =
                 Append([k \in 1 .. Len(acquisition_queue) |->
                           Aliased(acquisition_queue[k], r)], r)
            /\ acquisition_data' = Aliased(acquisition_data, r)
            /\ produced' = Append(produced, r)
            /\ acq_count' = acq_count + 1
            /\ acq_pc' = "check"
            /\ NoStop
       \/ /\ cmds' = Append(cmds, [cmd |-> "Read", ok |-> FALSE])
          /\ AcqExcept
          /\ UNCHANGED << data, acquisition_queue, produced, acq_count,
                          acquisition_data >>
    /\ UNCHANGED sentinels
    /\ UNCHANGED << save_pc, file_handles, closed, files, unflushed, i,
                    dequeued, save_exit >>
    /\ UNCHANGED << main_pc, opened_size, env_vars >>

\* read_data(-1, self.data); deep copy; acquisition_queue.put; acq_count += 1
AcqRead ==
    /\ acq_pc = "read"
    /\ \/ \E r \in Readouts(acq_count) :
            /\ cmds' = Append(cmds, [cmd |-> "Read", ok |-> TRUE])
            /\ data' = r
            /\ acquisition_queue' = Append(acquisition_queue, r)
            /\ produced' = Append(produced, r)
            /\ acq_count' = acq_count + 1
            /\ acq_pc' = "check"
            /\ NoStop
       \/ /\ cmds' = Append(cmds, [cmd |-> "Read", ok |-> FALSE])
          /\ AcqExcept
          /\ UNCHANGED << data, acquisition_queue, produced, acq_count >>
    /\ UNCHANGED sentinels
    /\ UNCHANGED << save_vars, main_pc, opened_size, env_vars >>

\* self.acquisition_queue.put(None)
AcqPutNone ==
    /\ acq_pc = "put_none"
    /\ acquisition_queue' = Append(acquisition_queue, None)
    /\ sentinels' = sentinels + 1
    /\ acq_pc' = "disarm"
    /\ NoStop
    /\ UNCHANGED << data, acq_count, cmds, produced >>
    /\ UNCHANGED << save_vars, main_pc, opened_size, env_vars >>

\* finally: self.dig.cmd.DisarmAcquisition(); an error here ends the thread
AcqDisarm ==
    /\ acq_pc = "disarm"
    /\ \E ok \in BOOLEAN : cmds' = Append(cmds, [cmd |-> "Disarm", ok |-> ok])
    /\ acq_pc' = "done"
    /\ NoStop
    /\ UNCHANGED << acquisition_queue, data, acq_count, produced, sentinels >>
    /\ UNCHANGED << save_vars, main_pc, opened_size, env_vars >>

\* -------------------------------------------------------- save_thread ----
\* mutant: the failing frame is skipped and the loop goes on
SaveExcept_continue(why) ==
    /\ NoStop
    /\ save_pc' = "check"
    /\ save_exit' = why

\* except Exception: print(...); self.stop_event.set(); then the finally
SaveExcept(why) ==
    /\ SetStop("save")
    /\ save_pc' = "finally"
    /\ save_exit' = why


\* mutant: the files are opened with "wb", which truncates them
SaveOpen_truncate ==
    /\ save_pc = "open"
    /\ \/ /\ file_handles' = file_handles \cup {i}
          /\ files' = [files EXCEPT ![i] = << >>]
          /\ i' = IF i + 1 = NumCh THEN 0 ELSE i + 1
          /\ save_pc' = IF i + 1 = NumCh THEN "check" ELSE "open"
          /\ NoStop
          /\ UNCHANGED save_exit
       \/ /\ SaveExcept("open_error")
          /\ UNCHANGED << file_handles, i, files >>
    /\ UNCHANGED << closed, unflushed, acquisition_data, dequeued >>
    /\ UNCHANGED << acquisition_queue, acq_vars, main_pc, opened_size, env_vars >>

\* file_handles[i] = open(f"raw_CH{i}.bin", "ab", buffering=8192)
SaveOpen ==
    /\ save_pc = "open"
    /\ \/ /\ file_handles' = file_handles \cup {i}
          /\ i' = IF i + 1 = NumCh THEN 0 ELSE i + 1
          /\ save_pc' = IF i + 1 = NumCh THEN "check" ELSE "open"
          /\ NoStop
          /\ UNCHANGED save_exit
       \/ /\ SaveExcept("open_error")
          /\ UNCHANGED << file_handles, i >>
    /\ UNCHANGED << closed, files, unflushed, acquisition_data, dequeued >>
    /\ UNCHANGED << acquisition_queue, acq_vars, main_pc, opened_size, env_vars >>

\* mutant: the loop also goes on while the queue is not empty
SaveCheck_drain ==
    /\ save_pc = "check"
    /\ save_pc' = IF stop_event /\ acquisition_queue = << >>
                    THEN "finally" ELSE "get"
    /\ save_exit' = IF stop_event /\ acquisition_queue = << >>
                      THEN "stop" ELSE save_exit
    /\ NoStop
    /\ UNCHANGED << file_handles, closed, files, unflushed, acquisition_data,
                    i, dequeued >>
    /\ UNCHANGED << acquisition_queue, acq_vars, main_pc, opened_size, env_vars >>

\* while not self.stop_event.is_set()
SaveCheck ==
    /\ save_pc = "check"
    /\ save_pc' = IF stop_event THEN "finally" ELSE "get"
    /\ save_exit' = IF stop_event THEN "stop" ELSE save_exit
    /\ NoStop
    /\ UNCHANGED << file_handles, closed, files, unflushed, acquisition_data,
                    i, dequeued >>
    /\ UNCHANGED << acquisition_queue, acq_vars, main_pc, opened_size, env_vars >>

\* mutant: the newest item is taken instead of the oldest (LIFO)
SaveGet_lifo ==
    /\ save_pc = "get"
    /\ acquisition_queue # << >>
    /\ LET item == acquisition_queue[Len(acquisition_queue)]
       IN  /\ acquisition_data' = item
           /\ acquisition_queue' =
                SubSeq(acquisition_queue, 1, Len(acquisition_queue) - 1)
           /\ IF item = None
                THEN /\ save_pc' = "finally"
                     /\ save_exit' = "sentinel"
                     /\ UNCHANGED << i, dequeued >>
                ELSE /\ save_pc' = "write"
                     /\ i' = 0
                     /\ dequeued' = dequeued + 1
                     /\ UNCHANGED save_exit
    /\ NoStop
    /\ UNCHANGED << file_handles, closed, files, unflushed >>
    /\ UNCHANGED << acq_vars, main_pc, opened_size, env_vars >>

\* mutant: the sentinel does not break the loop
SaveGet_nobreak ==
    /\ save_pc = "get"
    /\ acquisition_queue # << >>
    /\ acquisition_data' = Head(acquisition_queue)
    /\ acquisition_queue' = Tail(acquisition_queue)
    /\ IF Head(acquisition_queue) = None
         THEN /\ save_pc' = "check"
              /\ save_exit' = "sentinel"
              /\ UNCHANGED << i, dequeued >>
         ELSE /\ save_pc' = "write"
              /\ i' = 0
              /\ dequeued' = dequeued + 1
              /\ UNCHANGED save_exit
    /\ NoStop
    /\ UNCHANGED << file_handles, closed, files, unflushed >>
    /\ UNCHANGED << acq_vars, main_pc, opened_size, env_vars >>

\* acquisition_queue.get(timeout=1) returns an item; None breaks the loop
SaveGet ==
    /\ save_pc = "get"
    /\ acquisition_queue # << >>
    /\ acquisition_data' = Head(acquisition_queue)
    /\ acquisition_queue' = Tail(acquisition_queue)
    /\ IF Head(acquisition_queue) = None
         THEN /\ save_pc' = "finally"
              /\ save_exit' = "sentinel"
              /\ UNCHANGED << i, dequeued >>
         ELSE /\ save_pc' = "write"
              /\ i' = 0
              /\ dequeued' = dequeued + 1
              /\ UNCHANGED save_exit
    /\ NoStop
    /\ UNCHANGED << file_handles, closed, files, unflushed >>
    /\ UNCHANGED << acq_vars, main_pc, opened_size, env_vars >>

\* mutant: get() without a timeout waits on the empty queue for ever
SaveGetEmpty_block ==
    /\ save_pc = "get"
    /\ acquisition_queue = << >>
    /\ UNCHANGED vars

\* acquisition_queue.get(timeout=1) raises queue.Empty: continue
SaveGetEmpty ==
    /\ save_pc = "get"
    /\ acquisition_queue = << >>
    /\ save_pc' = "check"
    /\ NoStop
    /\ UNCHANGED << file_handles, closed, files, unflushed, acquisition_data,
                    i, dequeued, save_exit >>
    /\ UNCHANGED << acquisition_queue, acq_vars, main_pc, opened_size, env_vars >>

\* the bytes that reach the file when write number n of the record raises;
\* a failing tofile may have written k whole samples
Partial(fr, c, n, k) ==
    Concat(SubSeq(Fields(fr, c), 1, n - 1))
      \o (IF n = 5 THEN SubSeq(Fields(fr, c)[5], 1, 4 * k) ELSE << >>)

\* mutant: the stop flag is also looked at between the channels of a frame
SaveWrite_flagcheck ==
    /\ save_pc = "write"
    /\ LET fr == acquisition_data
           rec == RecordBytes(fr, i)
       IN  \/ /\ files' = [files EXCEPT ![i] = @ \o rec]
              /\ unflushed' = [unflushed EXCEPT ![i] =
                                  IF variant # "test" /\ fr.trigger_num % FlushEvery = 0
                                    THEN 0 ELSE @ + Len(rec)]
              /\ i' = IF i + 1 = NumCh THEN 0 ELSE i + 1
              /\ save_pc' = IF stop_event THEN "finally"
                            ELSE IF i + 1 = NumCh THEN "check" ELSE "write"
              /\ save_exit' = IF stop_event THEN "stop" ELSE save_exit
              /\ NoStop
           \/ \E n \in 1 .. 5, k \in 0 .. RecLen :
                /\ (n < 5 => k = 0)
                /\ 4 * k < Len(Fields(fr, i)[5]) \/ k = 0
                /\ LET part == Partial(fr, i, n, k)
                   IN  /\ files' = [files EXCEPT ![i] = @ \o part]
                       /\ unflushed' = [unflushed EXCEPT ![i] = @ + Len(part)]
                /\ SaveExcept("write_error")
                /\ UNCHANGED i
    /\ UNCHANGED << file_handles, closed, acquisition_data, dequeued >>
    /\ UNCHANGED << acquisition_queue, acq_vars, main_pc, opened_size, env_vars >>

\* mutant: the flush is after the channel loop and reaches the last file only
SaveWrite_flushlast ==
    /\ save_pc = "write"
    /\ LET fr == acquisition_data
           rec == RecordBytes(fr, i)
       IN  \/ /\ files' = [files EXCEPT ![i] = @ \o rec]
              /\ unflushed' = [unflushed EXCEPT ![i] =
                                  IF variant # "test" /\ fr.trigger_num % FlushEvery = 0
                                     /\ i + 1 = NumCh
                                    THEN 0 ELSE @ + Len(rec)]
              /\ i' = IF i + 1 = NumCh THEN 0 ELSE i + 1
              /\ save_pc' = IF i + 1 = NumCh THEN "check" ELSE "write"
              /\ NoStop
              /\ UNCHANGED save_exit
           \/ \E n \in 1 .. 5, k \in 0 .. RecLen :
                /\ (n < 5 => k = 0)
                /\ 4 * k < Len(Fields(fr, i)[5]) \/ k = 0
                /\ LET part == Partial(fr, i, n, k)
                   IN  /\ files' = [files EXCEPT ![i] = @ \o part]
                       /\ unflushed' = [unflushed EXCEPT ![i] = @ + Len(part)]
                /\ SaveExcept("write_error")
                /\ UNCHANGED i
    /\ UNCHANGED << file_handles, closed, acquisition_data, dequeued >>
    /\ UNCHANGED << acquisition_queue, acq_vars, main_pc, opened_size, env_vars >>

\* body of "for i, waveform in enumerate(waveforms)" for one channel:
\* four header writes, tofile, and the flush on every 10th trigger number
\* (multithread_test.py writes the samples one by one and never flushes)
SaveWrite ==
    /\ save_pc = "write"
    /\ LET fr == acquisition_data
           rec == RecordBytes(fr, i)
       IN  \/ /\ files' = [files EXCEPT ![i] = @ \o rec]
              /\ unflushed' = [unflushed EXCEPT ![i] =
                                  IF variant # "test" /\ fr.trigger_num % FlushEvery = 0
                                    THEN 0 ELSE @ + Len(rec)]
              /\ i' = IF i + 1 = NumCh THEN 0 ELSE i + 1
              /\ save_pc' = IF i + 1 = NumCh THEN "check" ELSE "write"
              /\ NoStop
              /\ UNCHANGED save_exit
           \/ \E n \in 1 .. 5, k \in 0 .. RecLen :
                /\ (n < 5 => k = 0)
                /\ 4 * k < Len(Fields(fr, i)[5]) \/ k = 0
                /\ LET part == Partial(fr, i, n, k)
                   IN  /\ files' = [files EXCEPT ![i] = @ \o part]
                       /\ unflushed' = [unflushed EXCEPT ![i] = @ + Len(part)]
                /\ SaveExcept("write_error")
                /\ UNCHANGED i
    /\ UNCHANGED << file_handles, closed, acquisition_data, dequeued >>
    /\ UNCHANGED << acquisition_queue, acq_vars, main_pc, opened_size, env_vars >>

\* mutant: the files are closed after the loop, not in a finally clause
SaveFinally_not_on_error ==
    /\ save_pc = "finally"
    /\ closed' = IF save_exit \in {"sentinel", "stop"} THEN file_handles ELSE closed
    /\ unflushed' = [c \in Channels |->
                       IF c \in file_handles /\ save_exit \in {"sentinel", "stop"}
                         THEN 0 ELSE unflushed[c]]
    /\ save_pc' = "done"
    /\ NoStop
    /\ UNCHANGED << file_handles, files, acquisition_data, i, dequeued, save_exit >>
    /\ UNCHANGED << acquisition_queue, acq_vars, main_pc, opened_size, env_vars >>

\* finally: for f in file_handles.values(): f.flush(); f.close()
SaveFinally ==
    /\ save_pc = "finally"
    /\ closed' = file_handles
    /\ unflushed' = [c \in Channels |-> IF c \in file_handles THEN 0 ELSE unflushed[c]]
    /\ save_pc' = "done"
    /\ NoStop
    /\ UNCHANGED << file_handles, files, acquisition_data, i, dequeued, save_exit >>
    /\ UNCHANGED << acquisition_queue, acq_vars, main_pc, opened_size, env_vars >>

\* ------------------------------------------- main and listen_for_key ----
\* input() returns 'q': stop_event.set(); break
ListenQuit ==
    /\ main_pc = "listen"
    /\ SetStop("listener")
    /\ main_pc' = "join_acq"
    /\ UNCHANGED << acquisition_queue, acq_vars, save_vars, opened_size, env_vars >>

\* acq_thread.join()
JoinAcq ==
    /\ main_pc = "join_acq"
    /\ acq_pc = "done"
    /\ main_pc' = "join_save"
    /\ NoStop
    /\ UNCHANGED << acquisition_queue, acq_vars, save_vars, opened_size, env_vars >>

\* save_thread.join()
JoinSave ==
    /\ main_pc = "join_save"
    /\ save_pc = "done"
    /\ main_pc' = "ended"
    /\ NoStop
    /\ UNCHANGED << acquisition_queue, acq_vars, save_vars, opened_size, env_vars >>

Next ==
    \/ AcqArm \/ AcqStart \/ AcqCheck \/ AcqTrigger \/ AcqRead
    \/ AcqPutNone \/ AcqDisarm
    \/ SaveOpen \/ SaveCheck \/ SaveGet \/ SaveGetEmpty \/ SaveWrite
    \/ SaveFinally
    \/ ListenQuit \/ JoinAcq \/ JoinSave

Spec == Init /\ [][Next]_vars

TypeOK ==
    /\ stop_event \in BOOLEAN
    /\ acq_pc \in {"arm", "start", "check", "trigger", "read", "put_none",
                   "disarm", "done"}
    /\ save_pc \in {"open", "check", "get", "write", "finally", "done"}
    /\ main_pc \in {"listen", "join_acq", "join_save", "ended"}
    /\ acq_count \in 0 .. MaxAcq
    /\ i \in Channels
    /\ file_handles \subseteq Channels
    /\ closed \subseteq file_handles
    /\ \A c \in Channels : \A n \in 1 .. Len(files[c]) : files[c][n] \in 0 .. 255

\* ========================================================= properties ====
\* the bytes appended to channel c's file during this run
RunPart(c) == SubSeq(files[c], opened_size[c] + 1, Len(files[c]))

\* the whole records of the given frames for channel c, back to back
Records(frames, c) ==
    Concat([k \in 1 .. Len(frames) |-> RecordBytes(frames[k], c)])

AllValid == \A k \in 1 .. Len(produced) : ValidFrame(produced[k])

\* EventNumber of the events the reader finds in this run's part of file c
TriggerIds(c) ==
    LET ev == read_raw_data(RunPart(c))
    IN  [k \in 1 .. Len(ev) |-> ev[k].EventNumber]

\* what the round trip must give back for channel c of frame fr
Event(fr, c) ==
    [EventNumber |-> fr.trigger_num,
     Timestamp |-> fr.timestamp,
     NSamples |-> fr.waveform_sizes[c],
     TimeResolution |-> 8,
     Waveform |-> [j \in 1 .. fr.waveform_sizes[c] |->
                      fr.waveforms[c][j] * 2 - (2 ^ AdcNBits - 1)]]

Disarms == { k \in 1 .. Len(cmds) : cmds[k].cmd = "Disarm" }

\* C1: when the operator sets the stop flag and the save thread then ends
\* without an error of its own, every frame that had been enqueued when the
\* flag was set has its whole record in every channel file.
C1_DrainOnStop ==
    (save_pc = "done" /\ stop_by = "listener" /\ save_exit \in {"stop", "sentinel"})
      => \A c \in Channels :
           IsPrefix(Records(SubSeq(produced, 1, stop_seen), c), RunPart(c))

\* C2: when the acquisition thread has terminated, on whatever path, the
\* sentinel None has been enqueued exactly once.
C2_SentinelOnce == acq_pc = "done" => sentinels = 1

\* C3: for every channel, what the run has appended to the channel file is a
\* prefix of the records of the enqueued frames laid end to end in the order
\* of production: same order, no record twice, no frame skipped.
C3_WrittenIsPrefixOfProduced ==
    \A c \in Channels : IsPrefix(RunPart(c), Records(produced, c))

C3_Witness ==
    /\ Len(produced) = MaxAcq
    /\ \E c \in Channels :
         RunPart(c) = Records(SubSeq(produced, 1, MaxAcq - 1), c)

C5_FailureStopsAndDisarmsOnce ==
    \A k \in 1 .. Len(cmds) :
      (~cmds[k].ok /\ cmds[k].cmd # "Disarm") =>
        /\ stop_event
        /\ \A j \in (k + 1) .. Len(cmds) : cmds[j].cmd = "Disarm"
        /\ Cardinality(Disarms) = (IF acq_pc = "done" THEN 1 ELSE 0)

C5_Witness ==
    /\ acq_pc = "done"
    /\ Len(produced) >= 1
    /\ \E k \in 1 .. Len(cmds) : ~cmds[k].ok /\ cmds[k].cmd = "Read"

\* C6: once a write of a frame has raised in the save thread the stop flag is
\* set, and from then on no channel file changes and no frame is dequeued.
C6_NoWriteAfterWriteError ==
    /\ [](save_exit = "write_error" => stop_event)
    /\ [][save_exit = "write_error" =>
            (files' = files /\ dequeued' = dequeued)]_vars

C6_Witness ==
    /\ save_exit = "write_error"
    /\ save_pc = "done"
    /\ acquisition_queue # << >>
    /\ Head(acquisition_queue) # None

\* C7: when the save thread has terminated, on whatever path, what the run
\* appended to each channel file is a sequence of whole records (frames that
\* respect valid_count <= len(raw_samples)).
C7_WholeRecordsOnly ==
    (save_pc = "done" /\ AllValid) =>
      \A c \in Channels : ReadFrom(RunPart(c)).rest = << >>

\* C8: when the save thread has terminated, on whatever path, all channel
\* files hold records of the same frames: the same trigger_id sequence.
C8_ChannelsConsistent ==
    (save_pc = "done" /\ AllValid) =>
      \A c, d \in Channels : TriggerIds(c) = TriggerIds(d)

\* C9: when the save thread leaves its loop because of the stop flag, every
\* frame it has dequeued has its complete record in every channel file.
C9_StopOnlyBetweenFrames ==
    save_exit = "stop" =>
      \A c \in Channels :
        RunPart(c) = Records(SubSeq(produced, 1, dequeued), c)

C9_Witness ==
    /\ save_exit = "stop"
    /\ stop_in_frame
    /\ dequeued >= 1

\* C10: between frames, with no write error, reading back a fresh channel
\* file to which only valid frames were written yields one Event per frame
\* written, in order, with the frame's trigger_id, timestamp, valid_count,
\* time resolution 8 and calibrated samples.
C10_RoundTrip ==
    (/\ save_pc # "write"
     /\ save_exit # "write_error"
     /\ \A k \in 1 .. dequeued : ValidFrame(produced[k]))
      => \A c \in Channels :
           opened_size[c] = 0 =>
             read_raw_data(files[c]) =
               [k \in 1 .. dequeued |-> Event(produced[k], c)]

C10_Witness ==
    /\ save_pc = "done"
    /\ dequeued = MaxAcq
    /\ AllValid
    /\ \E c \in Channels :
         /\ opened_size[c] = 0
         /\ Len(read_raw_data(files[c])) = MaxAcq
         /\ read_raw_data(files[c])[1].NSamples = RecLen
         /\ read_raw_data(files[c])[MaxAcq].NSamples < RecLen

\* ============================== bin_check.py: read_raw_data, stepwise ====
MaxRuns == 2         \* invocations of read_raw_data on one file

\* one pass of the generator's while loop at file offset pos: the four header
\* reads and the nSamples sample reads; a short read makes struct.unpack raise
DecodeAt(b, pos) ==
    LET left == Len(b) - pos
        nSamples == IF left < 16 THEN 0
                    ELSE UnpackLE(SubSeq(b, pos + 13, pos + 16))
        ok == left >= 24 /\ nSamples >= 0 /\ left >= 24 + 4 * nSamples
    IN  [ok |-> ok,
         next |-> pos + 24 + 4 * nSamples,
         event |->
           IF ~ok THEN None
           ELSE [EventNumber |-> UnpackLE(SubSeq(b, pos + 1, pos + 4)),
                 Timestamp |-> UnpackLE(SubSeq(b, pos + 5, pos + 12)),
                 NSamples |-> nSamples,
                 TimeResolution |-> UnpackLE(SubSeq(b, pos + 17, pos + 24)),
                 Waveform |-> [j \in 1 .. nSamples |->
                     UnpackF(SubSeq(b, pos + 24 + 4 * j - 3, pos + 24 + 4 * j))]]]

\* mutant: the file object is kept between invocations and never rewound
ReadOpen_norewind ==
    /\ rd_pc \in {"idle", "ended"}
    /\ rd_runs < MaxRuns
    /\ rd_prev' = rd_events
    /\ rd_runs' = rd_runs + 1
    /\ rd_events' = << >>
    /\ rd_pos' = rd_pos
    /\ rd_pc' = "reading"
    /\ UNCHANGED << rd_input, rd_raised, rd_frames, rd_chan >>

\* a new call of read_raw_data(): with open(self.input_raw_file, 'rb')
ReadOpen ==
    /\ rd_pc \in {"idle", "ended"}
    /\ rd_runs < MaxRuns
    /\ rd_prev' = rd_events
    /\ rd_runs' = rd_runs + 1
    /\ rd_events' = << >>
    /\ rd_pos' = 0
    /\ rd_pc' = "reading"
    /\ UNCHANGED << rd_input, rd_raised, rd_frames, rd_chan >>

\* one pass of "while True": yield an Event, or except struct.error: break
ReadRecord ==
    /\ rd_pc = "reading"
    /\ LET d == DecodeAt(rd_input, rd_pos)
       IN  IF d.ok
             THEN /\ rd_events' = Append(rd_events, d.event)
                  /\ rd_pos' = d.next
                  /\ UNCHANGED rd_pc
             ELSE /\ rd_pc' = "ended"
                  /\ UNCHANGED << rd_events, rd_pos >>
    /\ UNCHANGED << rd_input, rd_prev, rd_runs, rd_raised, rd_frames, rd_chan >>

pipe_vars == << stop_event, acquisition_queue, acq_vars, save_vars, main_pc,
                opened_size, stop_by, stop_seen, stop_in_frame, stop_early,
                stop_triggers, stop_dequeued,
                variant, n_acquisitions, run_result >>

\* the whole records of frames fs for channel c, back to back
FileOf(fs, c) == Concat([k \in 1 .. Len(fs) |-> RecordBytes(fs[k], c)])

\* sequences of at most n frames as acquisition_thread numbers them
RECURSIVE FrameSeqs(_)
FrameSeqs(n) ==
    IF n = 0 THEN { << >> }
    ELSE LET shorter == FrameSeqs(n - 1)
         IN  shorter \cup
             { Append(fs, r) : fs \in { f \in shorter : Len(f) = n - 1 },
                               r \in Readouts(n - 1) }

\* a channel file written by save_thread from some frames, cut at any length
InitRead ==
    /\ PipeStart(<< >>)
    /\ main_pc = "listen"
    /\ variant = "main"
    /\ n_acquisitions = 0
    /\ Construct(AdcNBits)
    /\ ConfigOff
    /\ rd_frames \in FrameSeqs(MaxAcq)
    /\ rd_chan \in Channels
    /\ \E cut \in 0 .. Len(FileOf(rd_frames, rd_chan)) :
         rd_input = SubSeq(FileOf(rd_frames, rd_chan), 1, cut)
    /\ rd_pc = "idle"
    /\ rd_pos = 0
    /\ rd_events = << >>
    /\ rd_prev = << >>
    /\ rd_runs = 0
    /\ rd_raised = FALSE

NextRead ==
    \/ (ReadOpen /\ UNCHANGED << pipe_vars, cal_vars, cfg_vars >>)
    \/ (ReadRecord /\ UNCHANGED << pipe_vars, cal_vars, cfg_vars >>)

\* the generator is driven by a for loop: it is resumed until it is exhausted
SpecRead == InitRead /\ [][NextRead]_vars /\ WF_vars(NextRead)

\* how many leading records of the frames are entirely inside the cut file
RECURSIVE CompleteIn(_, _, _)
CompleteIn(fs, c, len) ==
    IF fs = << >> \/ Len(RecordBytes(Head(fs), c)) > len THEN 0
    ELSE 1 + CompleteIn(Tail(fs), c, len - Len(RecordBytes(Head(fs), c)))

RdComplete == CompleteIn(rd_frames, rd_chan, Len(rd_input))
RdFragment == Len(rd_input) - Len(FileOf(SubSeq(rd_frames, 1, RdComplete), rd_chan))
RdValid == \A k \in 1 .. Len(rd_frames) : ValidFrame(rd_frames[k])

\* C11: when the generator has ended on a file cut anywhere inside or between
\* the records of valid frames, it has yielded exactly the records that are
\* entirely present, and a decode failure has been reported if and only if
\* the file ends in a fragment of a record.
C11_TruncationReported ==
    (rd_pc = "ended" /\ RdValid) =>
      /\ rd_events = [k \in 1 .. RdComplete |-> Event(rd_frames[k], rd_chan)]
      /\ rd_raised <=> (RdFragment > 0)

\* C12: every invocation of read_raw_data ends, and an invocation on the
\* unchanged file yields the same events as the one before it.
C12_FiniteAndRestartable ==
    /\ [](rd_pc = "reading" => <>(rd_pc = "ended"))
    /\ []((rd_pc = "ended" /\ rd_runs >= 2) => rd_events = rd_prev)

C12_Witness ==
    /\ rd_pc = "ended"
    /\ rd_runs = 2
    /\ Len(rd_events) = MaxAcq
    /\ \E k \in 1 .. Len(rd_events) : rd_events[k].NSamples = 0

\* ===================================== scheduling of the two workers ====
AcqNext ==
    \/ AcqArm \/ AcqStart \/ AcqCheck \/ AcqTrigger \/ AcqRead
    \/ AcqPutNone \/ AcqDisarm

SaveNext ==
    \/ SaveOpen \/ SaveCheck \/ SaveGet \/ SaveGetEmpty \/ SaveWrite
    \/ SaveFinally

\* Both threads keep being scheduled, every device call and every file
\* operation returns or raises, and get(timeout=1) returns after its timeout.
\* (what the channel files held before the run plays no part: fresh files)
InitFair ==
    /\ PipeStart(<< >>)
    /\ main_pc = "listen"
    /\ variant = "main"
    /\ n_acquisitions = 0
    /\ ReaderOff
    /\ Construct(AdcNBits)
    /\ ConfigOff

SpecFair == InitFair /\ [][Next]_vars /\ WF_vars(AcqNext) /\ WF_vars(SaveNext)

\* C13: whenever the stop flag is set, whoever set it, the acquisition thread
\* and the save thread both eventually reach their end.
C13_StopTerminatesWorkers ==
    stop_event ~> (acq_pc = "done" /\ save_pc = "done")

C13_Witness ==
    /\ stop_event
    /\ stop_by = "acq"
    /\ sentinels = 0
    /\ acquisition_queue = << >>
    /\ dequeued >= 1
    /\ acq_pc = "done"
    /\ save_pc = "done"
    /\ save_exit = "stop"

\* ================================================== sample blocks ====
\* number of frames whose record for channel c is completely in the file
WrittenCount(c) ==
    IF (save_pc = "write" \/ save_exit = "write_error") /\ c >= i
      THEN dequeued - 1 ELSE dequeued

\* the bytes after the 24 header bytes of the record of frame k in file c
SampleBlock(c, k) ==
    LET off == Len(Records(SubSeq(produced, 1, k - 1), c))
    IN  SubSeq(RunPart(c), off + 25, off + Len(RecordBytes(produced[k], c)))

\* C14: for every complete record of a frame with valid_count[c] no larger
\* than the buffer, the sample block is the calibrated values of exactly the
\* first valid_count[c] raw samples, in order, and nothing else.
C14_OnlyValidSamplesWritten ==
    \A c \in Channels : \A k \in 1 .. WrittenCount(c) :
      LET fr == produced[k]
          n == fr.waveform_sizes[c]
      IN  n <= Len(fr.waveforms[c]) =>
            SampleBlock(c, k) =
              Concat([j \in 1 .. n |->
                        PackF(fr.waveforms[c][j] * 2 - (2 ^ AdcNBits - 1))])

C14_Witness ==
    \E c \in Channels : \E k \in 1 .. WrittenCount(c) :
      /\ produced[k].waveform_sizes[c] > 0
      /\ produced[k].waveform_sizes[c] < Len(produced[k].waveforms[c])
      /\ Len(RunPart(c)) >= Len(Records(SubSeq(produced, 1, k), c))

\* ============================================ calibration on its own ====
\* ADC depths of the digitizers the conversion is run for
BitDepths == {2, 8, 12, 14, 16}

\* a DataAcquisition constructed for one of the depths
InitCal ==
    /\ PipeStart(<< >>)
    /\ main_pc = "listen"
    /\ variant = "main"
    /\ n_acquisitions = 0
    /\ ReaderOff
    /\ \E b \in BitDepths : Construct(b)
    /\ ConfigOff

\* adc_to_mv of the next raw value, with the scale and offset of the object
CalNext ==
    /\ cal_raw < 2 ^ cal_b - 1
    /\ cal_raw' = cal_raw + 1
    /\ cal_out' = AdcToMv(cal_raw + 1, cal_scale, cal_offset)
    /\ UNCHANGED << cal_b, cal_scale, cal_offset >>
    /\ UNCHANGED << pipe_vars, rd_vars, cfg_vars >>

SpecCal == InitCal /\ [][CalNext]_vars

\* C15: adc_to_mv(raw) = raw * 2/(2^b - 1) - 1 for every raw in 0 .. 2^b - 1,
\* with adc_to_mv(0) = offset = -1 and adc_to_mv(2^b - 1) = offset +
\* scale * (2^b - 1) = 1; scale and offset never change after construction,
\* and the value grows strictly with the raw sample.
C15_AffineIncreasing ==
    /\ [](/\ cal_scale = Rat(2, 2 ^ cal_b - 1)
          /\ cal_offset = Rat(-1, 1)
          /\ REq(cal_out, Rat(2 * cal_raw - (2 ^ cal_b - 1), 2 ^ cal_b - 1))
          /\ cal_raw = 0 => REq(cal_out, cal_offset)
          /\ cal_raw = 2 ^ cal_b - 1 =>
               /\ REq(cal_out, RAdd(cal_offset,
                                    RMul(cal_scale, Rat(2 ^ cal_b - 1, 1))))
               /\ REq(cal_out, Rat(1, 1)))
    /\ [][/\ RLess(cal_out, cal_out')
          /\ cal_scale' = cal_scale
          /\ cal_offset' = cal_offset]_cal_vars

C15_Witness ==
    /\ cal_b = 16
    /\ cal_raw = 2 ^ 16 - 1
    /\ cal_out = Rat(2 ^ 16 - 1, 2 ^ 16 - 1)

\* =========================================== stop before the first frame ====
\* C16: when the operator sets the stop flag before the acquisition thread's
\* first loop test, no trigger is sent, no frame is enqueued, the sentinel is
\* enqueued once by the time the thread has ended, and the save thread, once
\* ended (its opens having succeeded), has created and closed one file per
\* channel and appended nothing to any of them.
C16_StopBeforeFirstFrame ==
    (stop_early /\ stop_by = "listener") =>
      /\ \A k \in 1 .. Len(cmds) : cmds[k].cmd \notin {"Trigger", "Read"}
      /\ produced = << >>
      /\ sentinels <= 1
      /\ acq_pc = "done" => sentinels = 1
      /\ (save_pc = "done" /\ save_exit # "open_error") =>
           /\ file_handles = Channels
           /\ closed = Channels
           /\ \A c \in Channels : RunPart(c) = << >>

\* the same with no device call raising
C16_StopBeforeFirstFrame_NoDeviceError ==
    (\A k \in 1 .. Len(cmds) : cmds[k].ok) => C16_StopBeforeFirstFrame

\* ============== multithread_test.py and read.py: DataAcquisitionManager ====
\* mutant: the loop runs over range(n_acquisitions - 1)
AcqCheckBounded_offbyone ==
    /\ acq_pc = "check"
    /\ acq_pc' = IF acq_count < n_acquisitions - 1 /\ ~stop_event
                   THEN "trigger" ELSE "put_none"
    /\ NoStop
    /\ UNCHANGED << acquisition_queue, data, acq_count, cmds, produced, sentinels >>
    /\ UNCHANGED << save_vars, main_pc, opened_size, env_vars >>

\* for acq_count in range(self.n_acquisitions): if stop_event.is_set(): break
AcqCheckBounded ==
    /\ acq_pc = "check"
    /\ acq_pc' = IF acq_count < n_acquisitions /\ ~stop_event
                   THEN "trigger" ELSE "put_none"
    /\ NoStop
    /\ UNCHANGED << acquisition_queue, data, acq_count, cmds, produced, sentinels >>
    /\ UNCHANGED << save_vars, main_pc, opened_size, env_vars >>

\* run(): save_thread.join(); return not self.stop_event.is_set()
RunReturn ==
    /\ main_pc = "join_save"
    /\ save_pc = "done"
    /\ main_pc' = "returned"
    /\ run_result' = IF stop_event THEN "False" ELSE "True"
    /\ NoStop
    /\ UNCHANGED << acquisition_queue, acq_vars, save_vars, opened_size >>
    /\ UNCHANGED << variant, n_acquisitions, rd_vars, cal_vars, cfg_vars >>

\* run() has started both threads and is about to join them
InitBounded ==
    /\ \E p \in PriorContents : PipeStart(p)
    /\ main_pc = "join_acq"
    /\ variant \in {"test", "read"}
    /\ n_acquisitions \in 0 .. MaxAcq
    /\ ReaderOff
    /\ Construct(AdcNBits)
    /\ ConfigOff

NextBounded ==
    \/ AcqArm \/ AcqStart \/ AcqCheckBounded \/ AcqTrigger \/ AcqRead
    \/ AcqPutNone \/ AcqDisarm
    \/ SaveOpen \/ SaveCheck \/ SaveGet \/ SaveGetEmpty \/ SaveWrite
    \/ SaveFinally
    \/ JoinAcq \/ RunReturn

SpecBounded == InitBounded /\ [][NextBounded]_vars

\* no call of either worker has raised
NoWorkerError ==
    /\ \A k \in 1 .. Len(cmds) : cmds[k].ok
    /\ save_exit \notin {"open_error", "write_error"}

\* the 24 header bytes of the record of frame k in channel c's file
HeaderOf(c, k) ==
    LET off == Len(Records(SubSeq(produced, 1, k - 1), c))
    IN  SubSeq(RunPart(c), off + 1, off + 24)

\* C17: when both threads of a bounded run have ended and no call raised,
\* n_acquisitions frames were produced and every channel file has gained
\* exactly their records, in production order, each header carrying the
\* frame's trigger number and the channel's valid_count.
C17_BoundedRunWritesAll ==
    (acq_pc = "done" /\ save_pc = "done" /\ NoWorkerError) =>
      /\ Len(produced) = n_acquisitions
      /\ \A c \in Channels :
           /\ Len(RunPart(c)) = Len(Records(produced, c))
           /\ \A k \in 1 .. n_acquisitions :
                /\ UnpackLE(SubSeq(HeaderOf(c, k), 1, 4)) = k - 1
                /\ UnpackLE(SubSeq(HeaderOf(c, k), 1, 4)) = produced[k].trigger_num
                /\ UnpackLE(SubSeq(HeaderOf(c, k), 13, 16)) =
                     produced[k].waveform_sizes[c]

C17_Witness ==
    /\ acq_pc = "done" /\ save_pc = "done" /\ NoWorkerError
    /\ variant = "test"
    /\ n_acquisitions = MaxAcq
    /\ \A c \in Channels : Len(RunPart(c)) >= 24 * MaxAcq

\* C18: run() returns only when both threads have ended; it returns True
\* only if all n_acquisitions frames were acquired and completely written to
\* every channel file; it returns False whenever a call of a worker raised.
C18_RunResult ==
    run_result # "none" =>
      /\ acq_pc = "done" /\ save_pc = "done"
      /\ run_result = "True" =>
           /\ Len(produced) = n_acquisitions
           /\ \A c \in Channels : RunPart(c) = Records(produced, c)
      /\ ~NoWorkerError => run_result = "False"

\* the same, leaving aside an error raised by DisarmAcquisition
C18_RunResult_ButDisarm ==
    run_result # "none" =>
      /\ acq_pc = "done" /\ save_pc = "done"
      /\ run_result = "True" =>
           /\ Len(produced) = n_acquisitions
           /\ \A c \in Channels : RunPart(c) = Records(produced, c)
      /\ (\/ \E k \in 1 .. Len(cmds) : ~cmds[k].ok /\ cmds[k].cmd # "Disarm"
          \/ save_exit \in {"open_error", "write_error"})
           => run_result = "False"

\* ============== end-of-stream sentinel ====================================
\* C19: the sentinel is the last item ever put on the queue (nothing is
\* enqueued after it), and once the save thread has dequeued it the thread
\* is past its loop and takes nothing more from the queue.
C19_SentinelIsLast ==
    /\ [] /\ \A k \in 1 .. Len(acquisition_queue) :
               acquisition_queue[k] = None => k = Len(acquisition_queue)
          /\ save_exit = "sentinel" => save_pc \in {"finally", "done"}
    /\ [][ /\ sentinels >= 1 =>
                /\ produced' = produced
                /\ sentinels' = sentinels
                /\ Len(acquisition_queue') <= Len(acquisition_queue)
           /\ save_exit = "sentinel" =>
                /\ acquisition_queue' = acquisition_queue
                /\ dequeued' = dequeued ]_vars

C19_Witness ==
    /\ save_exit = "sentinel"
    /\ save_pc = "done"
    /\ Len(produced) >= 1
    /\ dequeued = Len(produced)

\* ============== append-only channel files =================================
\* C20: what a channel file held when it was opened stays an unchanged prefix
\* of the file, and every step leaves the old file a prefix of the new one.
C20_AppendOnly ==
    /\ [] \A c \in Channels :
            \E p \in PriorContents :
              /\ Len(p) = opened_size[c]
              /\ IsPrefix(p, files[c])
    /\ [][ \A c \in Channels : IsPrefix(files[c], files'[c]) ]_vars

C20_Witness ==
    \E c \in Channels :
      /\ opened_size[c] > 0
      /\ Len(files[c]) > opened_size[c]
      /\ save_pc = "done"

\* ============== config.py: ConfigReader ===================================
\* Strings are sequences of characters.  Section names: "ACQ", "CH0" and a
\* section "X" without defaults; option names: "t" (threshold), "T" (the same
\* in upper case), "r" (record_length) and "z" (in no default).
MaxCalls == 2        \* calls made on one ConfigReader

ACQ == << "A", "C", "Q" >>
CH0 == << "C", "H", "0" >>
default_channel == << "d", "c" >>
CfgSectionNames == { ACQ, CH0, << "X" >> }
CfgOptionNames == { << "t" >>, << "T" >>, << "r" >>, << "z" >> }
\* str(value) of the values passed to set
CfgValues == { << "7" >>, << " ", "7" >>, << >> }

\* the default_settings dict: (section, option, value)
default_settings ==
    { << ACQ, << "r" >>, << "3" >> >>,
      << default_channel, << "t" >>, << "1" >> >> }

\* the order in which write() emits sections and options (insertion order
\* in the code; the parsed result does not depend on it)
CfgSectionOrder == << ACQ, CH0, << "X" >> >>
CfgOptionOrder == << << "r" >>, << "t" >>, << "z" >> >>

\* optionxform: str.lower, character by character
optionxform(option) ==
    [j \in 1 .. Len(option) |-> IF option[j] = "T" THEN "t" ELSE option[j]]

RECURSIVE lstrip(_)
lstrip(str) == IF str # << >> /\ Head(str) = " " THEN lstrip(Tail(str)) ELSE str

RECURSIVE rstrip(_)
rstrip(str) ==
    IF str # << >> /\ str[Len(str)] = " "
      THEN rstrip(SubSeq(str, 1, Len(str) - 1)) ELSE str

strip(str) == rstrip(lstrip(str))

startswith_CH(section) ==
    Len(section) >= 2 /\ section[1] = "C" /\ section[2] = "H"

\* the outcome of a call: a returned value, or ConfigurationError
Returned(v) == [ok |-> TRUE, value |-> v]
ConfigurationError == [ok |-> FALSE, value |-> << >>]

\* dict[section][option]; KeyError becomes ConfigurationError in the caller
DictLookup(dict, section, option) ==
    IF \E e \in dict : e[1] = section /\ e[2] = option
      THEN Returned((CHOOSE e \in dict : e[1] = section /\ e[2] = option)[3])
      ELSE ConfigurationError

\* configparser has_option: the section exists and holds optionxform(option)
has_option(sections, config, section, option) ==
    /\ section \in sections
    /\ \E e \in config : e[1] = section /\ e[2] = optionxform(option)

\* configparser get of an option has_option found
config_get(config, section, option) ==
    (CHOOSE e \in config : e[1] = section /\ e[2] = optionxform(option))[3]

\* ConfigReader._get_with_default
get_with_default(sections, config, section, option) ==
    IF startswith_CH(section)
      THEN IF has_option(sections, config, section, option)
             THEN Returned(config_get(config, section, option))
             ELSE DictLookup(default_settings, default_channel, option)
      ELSE IF has_option(sections, config, section, option)
             THEN Returned(config_get(config, section, option))
             ELSE DictLookup(default_settings, section, option)

\* configparser set: the option's old value, if any, is replaced
config_set(config, section, option, value) ==
    { e \in config : ~(e[1] = section /\ e[2] = optionxform(option)) }
      \cup { << section, optionxform(option), value >> }

\* configparser _write_section: "[name]", "key = value" per option, ""
WriteSection(config, section) ==
    << << "[" >> \o section \o << "]" >> >>
    \o Concat([k \in 1 .. Len(CfgOptionOrder) |->
         IF \E e \in config : e[1] = section /\ e[2] = CfgOptionOrder[k]
           THEN << CfgOptionOrder[k] \o << " ", "=", " " >>
                   \o config_get(config, section, CfgOptionOrder[k]) >>
           ELSE << >>])
    \o << << >> >>

\* configparser write: every section in turn
ConfigWrite(sections, config) ==
    Concat([k \in 1 .. Len(CfgSectionOrder) |->
      IF CfgSectionOrder[k] \in sections
        THEN WriteSection(config, CfgSectionOrder[k]) ELSE << >>])

\* index of the first "=" or ":" of a line, 0 if there is none
FirstDelimiter(line) ==
    IF \E j \in 1 .. Len(line) : line[j] \in {"=", ":"}
      THEN CHOOSE j \in 1 .. Len(line) :
             /\ line[j] \in {"=", ":"}
             /\ \A k \in 1 .. (j - 1) : line[k] \notin {"=", ":"}
      ELSE 0

RECURSIVE ReadLines(_, _)
\* configparser _read: blank lines are skipped, "[name]" opens a section,
\* any other line is split at its first delimiter; the option name is
\* right-stripped and lowered, the value is stripped
ReadLines(lines, acc) ==
    IF lines = << >> THEN acc
    ELSE
      LET value == strip(Head(lines))
      IN  IF value = << >> THEN ReadLines(Tail(lines), acc)
          ELSE IF Head(value) = "[" /\ value[Len(value)] = "]" /\ Len(value) > 2
            THEN LET sectname == SubSeq(value, 2, Len(value) - 1)
                 IN  ReadLines(Tail(lines),
                       [sections |-> acc.sections \cup {sectname},
                        config |-> acc.config, cursect |-> sectname])
          ELSE
            LET d == FirstDelimiter(value)
                optname == optionxform(rstrip(SubSeq(value, 1, d - 1)))
                optval == strip(SubSeq(value, d + 1, Len(value)))
            IN  ReadLines(Tail(lines),
                  [sections |-> acc.sections,
                   config |-> config_set(acc.config, acc.cursect, optname, optval),
                   cursect |-> acc.cursect])

\* ConfigReader._load_config: the sections and options of the file, nothing
\* when the file does not exist
load_config(exists, file) ==
    IF exists
      THEN ReadLines(file, [sections |-> {}, config |-> {}, cursect |-> << >>])
      ELSE [sections |-> {}, config |-> {}, cursect |-> << >>]

\* an INI file left by an earlier session: "[CH0]", "T = 9", ""
PriorIni ==
    << << "[", "C", "H", "0", "]" >>, << "T", " ", "=", " ", "9" >>, << >> >>

CfgCall(op, section, option, value, out, removed, had) ==
    [op |-> op, section |-> section, option |-> option, value |-> value,
     out |-> out, removed |-> removed, had |-> had]

\* ConfigReader.__init__ on a file that may exist; nothing else is running
InitCfg ==
    /\ PipeStart(<< >>)
    /\ main_pc = "listen"
    /\ variant = "main"
    /\ n_acquisitions = 0
    /\ ReaderOff
    /\ \E b \in {AdcNBits} : Construct(b)
    /\ cfg_exists \in BOOLEAN
    /\ cfg_file = IF cfg_exists THEN PriorIni ELSE << >>
    /\ cfg_sections = load_config(cfg_exists, cfg_file).sections
    /\ cfg_config = load_config(cfg_exists, cfg_file).config
    /\ cfg_last = CfgCall("new", << >>, << >>, << >>, Returned(<< >>), FALSE, FALSE)
    /\ cfg_calls = 0

CfgStep ==
    /\ cfg_calls < MaxCalls
    /\ cfg_calls' = cfg_calls + 1
    /\ UNCHANGED << pipe_vars, rd_vars, cal_vars >>

\* the option is in the in-memory configuration
CfgHas(section, option) ==
    \E e \in cfg_config : e[1] = section /\ e[2] = optionxform(option)

\* ConfigReader.get
CfgGet ==
    \E section \in CfgSectionNames, option \in CfgOptionNames :
      /\ CfgStep
      /\ cfg_last' = CfgCall("get", section, option, << >>,
                       get_with_default(cfg_sections, cfg_config, section, option),
                       FALSE, CfgHas(section, option))
      /\ UNCHANGED << cfg_exists, cfg_file, cfg_sections, cfg_config >>

\* ConfigReader.set: add_section when missing, set, _save_current_config
CfgSet ==
    \E section \in CfgSectionNames, option \in CfgOptionNames,
       value \in CfgValues :
      /\ CfgStep
      /\ cfg_sections' = cfg_sections \cup {section}
      /\ cfg_config' = config_set(cfg_config, section, option, value)
      /\ cfg_exists' = TRUE
      /\ cfg_file' = ConfigWrite(cfg_sections', cfg_config')
      /\ cfg_last' = CfgCall("set", section, option, value, Returned(<< >>),
                       FALSE, CfgHas(section, option))

\* ConfigReader.remove_option: configparser raises NoSectionError for a
\* section it does not have; the file is saved only when an option went
CfgRemoveOption ==
    \E section \in CfgSectionNames, option \in CfgOptionNames :
      /\ CfgStep
      /\ IF section \notin cfg_sections
           THEN /\ cfg_last' = CfgCall("remove_option", section, option, << >>,
                                 ConfigurationError, FALSE, CfgHas(section, option))
                /\ UNCHANGED << cfg_exists, cfg_file, cfg_sections, cfg_config >>
           ELSE LET existed == \E e \in cfg_config :
                                 e[1] = section /\ e[2] = optionxform(option)
                IN  /\ cfg_config' = { e \in cfg_config :
                          ~(e[1] = section /\ e[2] = optionxform(option)) }
                    /\ cfg_exists' = (cfg_exists \/ existed)
                    /\ cfg_file' = IF existed
                                     THEN ConfigWrite(cfg_sections, cfg_config')
                                     ELSE cfg_file
                    /\ cfg_last' = CfgCall("remove_option", section, option,
                                     << >>, Returned(<< >>), existed,
                                     CfgHas(section, option))
                    /\ UNCHANGED cfg_sections

\* a new ConfigReader on the same file
CfgNew ==
    /\ CfgStep
    /\ cfg_sections' = load_config(cfg_exists, cfg_file).sections
    /\ cfg_config' = load_config(cfg_exists, cfg_file).config
    /\ cfg_last' = CfgCall("new", << >>, << >>, << >>, Returned(<< >>), FALSE, FALSE)
    /\ UNCHANGED << cfg_exists, cfg_file >>

NextCfg == CfgGet \/ CfgSet \/ CfgRemoveOption \/ CfgNew

SpecCfg == InitCfg /\ [][NextCfg]_vars

\* the default the fallback rule names for (section, option)
CfgDefault(section, option) ==
    IF startswith_CH(section)
      THEN DictLookup(default_settings, default_channel, option)
      ELSE DictLookup(default_settings, section, option)

\* get returns the explicit value when there is one, else the default, else
\* raises ConfigurationError
C21_GetPart ==
    cfg_last.op = "get" =>
      cfg_last.out =
        IF cfg_last.had
          THEN Returned((CHOOSE e \in cfg_config :
                           /\ e[1] = cfg_last.section
                           /\ e[2] = optionxform(cfg_last.option))[3])
          ELSE CfgDefault(cfg_last.section, cfg_last.option)

\* after set, get on the same object returns str(v)
C21_SetInProcess ==
    cfg_last.op = "set" =>
      get_with_default(cfg_sections, cfg_config, cfg_last.section,
                       cfg_last.option) = Returned(cfg_last.value)

\* after set, a new ConfigReader on the same file returns str(v)
C21_SetPersisted ==
    cfg_last.op = "set" =>
      LET new == load_config(cfg_exists, cfg_file)
      IN  get_with_default(new.sections, new.config, cfg_last.section,
                           cfg_last.option) = Returned(cfg_last.value)

\* C21: get returns the explicit value when there is one, else the default
\* (default_channel for sections starting with CH), else raises; after
\* set(section, option, v) get returns str(v), on this object and on a new
\* ConfigReader on the same file.
C21_LookupWithFallback ==
    /\ cfg_last.op = "get" =>
         cfg_last.out =
           IF CfgHas(cfg_last.section, cfg_last.option)
             THEN Returned(config_get(cfg_config, cfg_last.section,
                                      cfg_last.option))
             ELSE CfgDefault(cfg_last.section, cfg_last.option)
    /\ cfg_last.op = "set" =>
         /\ get_with_default(cfg_sections, cfg_config, cfg_last.section,
                             cfg_last.option) = Returned(cfg_last.value)
         /\ get_with_default(load_config(cfg_exists, cfg_file).sections,
                             load_config(cfg_exists, cfg_file).config,
                             cfg_last.section, cfg_last.option)
              = Returned(cfg_last.value)

\* remove_option on a section the configuration has
C22_RemoveOption_SectionPresent ==
    (cfg_last.op = "remove_option" /\ cfg_last.out.ok) =>
      /\ cfg_last.removed = cfg_last.had
      /\ get_with_default(cfg_sections, cfg_config, cfg_last.section,
                          cfg_last.option)
           = CfgDefault(cfg_last.section, cfg_last.option)

\* C22: remove_option returns True if the option was removed and False if it
\* did not exist, for every section and option, an absent section included;
\* afterwards get yields the default.
C22_RemoveOption ==
    cfg_last.op = "remove_option" =>
      /\ cfg_last.out.ok
      /\ cfg_last.removed = cfg_last.had
      /\ get_with_default(cfg_sections, cfg_config, cfg_last.section,
                          cfg_last.option)
           = CfgDefault(cfg_last.section, cfg_last.option)

\* ============== sample_count against the sample block ====================
\* the sample_count field of the record of frame k in channel c's file
SampleCountField(c, k) == UnpackLE(SubSeq(HeaderOf(c, k), 13, 16))

\* C23 as stated: for every complete record, of whatever frame, the
\* sample_count field equals the number of samples appended after the header.
C23_SampleCountMatches_AnyFrame ==
    \A c \in Channels : \A k \in 1 .. WrittenCount(c) :
      4 * SampleCountField(c, k) = Len(SampleBlock(c, k))

\* C23 amended: for every complete record of a frame whose valid_count does
\* not exceed the length of the raw sample buffer, the sample_count field
\* equals the number of samples appended after the header.
C23_SampleCountMatches ==
    \A c \in Channels : \A k \in 1 .. WrittenCount(c) :
      produced[k].waveform_sizes[c] <= Len(produced[k].waveforms[c]) =>
        4 * SampleCountField(c, k) = Len(SampleBlock(c, k))

C23_Witness ==
    \E c \in Channels : \E k \in 1 .. WrittenCount(c) :
      /\ produced[k].waveform_sizes[c] = 1
      /\ Len(produced[k].waveforms[c]) > 1
      /\ SampleCountField(c, k) = 1
      /\ Len(SampleBlock(c, k)) = 4

\* ============== work done after the stop flag =============================
\* C24: once the stop flag is set, the acquisition thread sends at most one
\* more trigger and enqueues at most one more frame, and the save thread
\* dequeues at most one more frame; at its next loop test each leaves.
C24_AtMostOneAfterStop ==
    /\ [] (stop_event =>
             /\ Triggers <= stop_triggers + 1
             /\ Len(produced) <= stop_seen + 1
             /\ dequeued <= stop_dequeued + 1)
    /\ [][ /\ (stop_event /\ acq_pc = "check") => acq_pc' \in {"check", "put_none"}
           /\ (stop_event /\ save_pc = "check") => save_pc' \in {"check", "finally"}
         ]_vars

C24_Witness ==
    /\ stop_event
    /\ acq_pc = "done" /\ save_pc = "done"
    /\ Triggers = stop_triggers + 1
    /\ Len(produced) = stop_seen + 1
    /\ dequeued = stop_dequeued + 1

\* ============== order of the device commands ==============================
\* positions in cmds of the calls of command c
CmdAt(c) == {k \in 1 .. Len(cmds) : cmds[k].cmd = c}

\* C25: a trigger or read is issued only after arm and then start have
\* returned without error; disarm is issued exactly once on every path that
\* ends the thread, after the last trigger/read and the last enqueue; nothing
\* is sent to the device, and nothing is enqueued, after disarm.
C25_CommandOrder ==
    /\ [] /\ \A k \in CmdAt("Trigger") \cup CmdAt("Read") :
               \E a \in CmdAt("Arm") : \E b \in CmdAt("Start") :
                 a < b /\ b < k /\ cmds[a].ok /\ cmds[b].ok
          /\ Cardinality(CmdAt("Disarm")) <= 1
          /\ acq_pc = "done" => Cardinality(CmdAt("Disarm")) = 1
          /\ \A k \in CmdAt("Disarm") : k = Len(cmds)
    /\ [][ CmdAt("Disarm") # {} =>
             /\ cmds' = cmds
             /\ produced' = produced
             /\ sentinels' = sentinels ]_vars

C25_Witness ==
    /\ acq_pc = "done"
    /\ Cardinality(CmdAt("Trigger")) >= 2
    /\ Cardinality(CmdAt("Read")) >= 2
    /\ sentinels = 1
    /\ cmds[Len(cmds)].cmd = "Disarm"

\* ============== frames are not changed after enqueue ======================
\* the frames in the queue, without the sentinel
QueuedFrames ==
    SelectSeq(acquisition_queue, LAMBDA it : it # None)

\* C26: every frame in the queue, and the frame the save thread is
\* serializing, is what read_data delivered for its own trigger, whatever
\* later reads have put into the shared buffer self.data.
C26_EnqueuedFramesUnchanged ==
    /\ QueuedFrames = SubSeq(produced, dequeued + 1, Len(produced))
    /\ (acquisition_data # None /\ dequeued >= 1) =>
         acquisition_data = produced[dequeued]

C26_Witness ==
    /\ save_pc = "write"
    /\ dequeued = 1
    /\ Len(produced) = 2
    /\ data = produced[2]
    /\ data # acquisition_data
    /\ acquisition_data = produced[1]

\* ============== the calibrations of the bounded variants ==================
\* multithread_test.py adc_to_mv for depth b: the uint16 array times
\* adc_range = 2 wraps modulo 2^16, then / (2**b - 1) and - adc_range / 2
AdcToMvTest(adc, b) ==
    RAdd(Rat((adc * 2) % (2 ^ 16), 2 ^ b - 1), Rat(-1, 1))

\* read.py: self.adc_scale = 2 / (self.adc_n_bits - 1)
AdcScaleRead(b) == Rat(2, b - 1)

\* read.py: self.adc_offset = 0
AdcOffsetRead(b) == Rat(0, 1)

\* C27: for every depth b up to 16 and every raw sample in 0 .. 2^b - 1 the
\* calibration of multithread_test.py gives the value of main.py's adc_to_mv.
C27_TestCalibrationAgrees ==
    REq(AdcToMvTest(cal_raw, cal_b), cal_out)

\* the same for the samples whose double fits 16 bits
C27_TestCalibrationAgrees_NoWrap ==
    cal_raw < 2 ^ 15 => REq(AdcToMvTest(cal_raw, cal_b), cal_out)

\* C28: read.py's scale and offset equal main.py's 2/(2^b - 1) and -1: raw 0
\* maps to -1 and raw 2^b - 1 maps to +1.
C28_ReadCalibrationAgrees ==
    /\ REq(AdcScaleRead(cal_b), cal_scale)
    /\ REq(AdcOffsetRead(cal_b), cal_offset)
    /\ cal_raw = 0 =>
         REq(AdcToMv(cal_raw, AdcScaleRead(cal_b), AdcOffsetRead(cal_b)),
             Rat(-1, 1))
    /\ cal_raw = 2 ^ cal_b - 1 =>
         REq(AdcToMv(cal_raw, AdcScaleRead(cal_b), AdcOffsetRead(cal_b)),
             Rat(1, 1))

\* ============== main() after a worker's error =============================
\* the steps of main() that need no operator: the two joins
MainNext == JoinAcq \/ JoinSave

\* the scheduling of SpecFair, and main() runs whenever a join can return;
\* the operator is under no obligation to type anything
SpecMain ==
    /\ InitFair
    /\ [][Next]_vars
    /\ WF_vars(AcqNext) /\ WF_vars(SaveNext) /\ WF_vars(MainNext)

\* C29: when both worker threads have ended after a worker set the stop flag
\* and the operator has typed nothing, main() eventually passes both joins
\* and ends.
C29_MainEndsAfterWorkerError ==
    (/\ acq_pc = "done" /\ save_pc = "done"
     /\ stop_by \in {"acq", "save"}
     /\ main_pc = "listen")
      ~> (main_pc = "ended")

\* main() leaves listen_for_key only through the operator's 'q'
C29_JoinsOnlyAfterQuit ==
    [][main_pc = "listen" /\ main_pc' # "listen" => stop_event']_vars

\* ============== flush cadence ==============================================
FlushRun == 12       \* frames of a run that is followed past two flushes

\* the loop test of acquisition_thread, followed for FlushRun iterations
AcqCheckFlush ==
    /\ acq_pc = "check"
    /\ stop_event \/ acq_count < FlushRun
    /\ acq_pc' = IF stop_event THEN "put_none" ELSE "trigger"
    /\ NoStop
    /\ UNCHANGED << acquisition_queue, data, acq_count, cmds, produced, sentinels >>
    /\ UNCHANGED << save_vars, main_pc, opened_size, env_vars >>

\* read_data, copy, put and count as in AcqRead, the device delivering whole
\* buffers (valid_count = record length) with consecutive trigger ids
AcqReadFull ==
    /\ acq_pc = "read"
    /\ \/ \E r \in { f \in Readouts(acq_count) :
                       \A c \in Channels : f.waveform_sizes[c] = RecLen } :
            /\ cmds' = Append(cmds, [cmd |-> "Read", ok |-> TRUE])
            /\ data' = r
            /\ acquisition_queue' = Append(acquisition_queue, r)
            /\ produced' = Append(produced, r)
            /\ acq_count' = acq_count + 1
            /\ acq_pc' = "check"
            /\ NoStop
       \/ /\ cmds' = Append(cmds, [cmd |-> "Read", ok |-> FALSE])
          /\ AcqExcept
          /\ UNCHANGED << data, acquisition_queue, produced, acq_count >>
    /\ UNCHANGED sentinels
    /\ UNCHANGED << save_vars, main_pc, opened_size, env_vars >>

NextFlush ==
    \/ AcqArm \/ AcqStart \/ AcqCheckFlush \/ AcqTrigger \/ AcqReadFull
    \/ AcqPutNone \/ AcqDisarm
    \/ SaveOpen \/ SaveCheck \/ SaveGet \/ SaveGetEmpty \/ SaveWrite
    \/ SaveFinally
    \/ ListenQuit \/ JoinAcq \/ JoinSave

SpecFlush == InitFair /\ [][NextFlush]_vars

\* complete records in channel c's file since its last explicit flush, in a
\* state between frames
RecordsSinceFlush(c) ==
    CHOOSE k \in 0 .. dequeued :
      /\ Len(Records(SubSeq(produced, dequeued - k + 1, dequeued), c))
           >= unflushed[c]
      /\ \A m \in 0 .. (k - 1) :
           Len(Records(SubSeq(produced, dequeued - m + 1, dequeued), c))
             < unflushed[c]

\* C30: the step that completes channel c's record of a frame whose
\* trigger_id is a multiple of 10 leaves channel c's file flushed; with
\* consecutive trigger ids, between frames no channel file has more than 9
\* complete records written since its last explicit flush.
C30_FlushCadence ==
    /\ [][ \A c \in Channels :
             (/\ save_pc = "write" /\ i = c
              /\ acquisition_data.trigger_num % FlushEvery = 0
              /\ files'[c] = files[c] \o RecordBytes(acquisition_data, c))
               => unflushed'[c] = 0 ]_vars
    /\ [] (save_pc \in {"check", "get"} =>
             \A c \in Channels : RecordsSinceFlush(c) <= FlushEvery - 1)

C30_Witness ==
    /\ save_pc = "check"
    /\ dequeued = FlushEvery
    /\ produced[dequeued].trigger_num = FlushEvery - 1
    /\ \A c \in Channels : RecordsSinceFlush(c) = FlushEvery - 1

====
